---- MODULE Spec2Model ----
(***************************************************************************)
(* Model of the CODAGE11 3D pricer (src/main.py): the estimator            *)
(* analyze_3d_file_simple, the pricer calculate_price and the upload       *)
(* handler analyze_file.                                                   *)
(*                                                                         *)
(* Numbers.  The program computes in binary floating point and rounds its  *)
(* results to a fixed number of decimals.  The model computes the same     *)
(* formulas exactly, as fractions of integers, and rounds them to the same *)
(* number of decimals.  Fixed-point units:                                 *)
(*   volume_cm3, complexity_factor      thousandths  (3 decimals)          *)
(*   surface_area_cm2, weight_g, hours  hundredths   (2 decimals)          *)
(*   every cost                         cents        (2 decimals)          *)
(*   minutes                            units        (0 decimals)          *)
(*   infill                             percent, layer_height micrometres  *)
(* A value that lies exactly halfway between two representable results is  *)
(* rounded by Python according to the binary value of the double, which    *)
(* the model does not compute: Round yields both neighbours, and a call    *)
(* that rounds has every combination of them as a possible result.         *)
(* The intermediate products exceed 32 bits, so they are carried as        *)
(* sequences of base-Base digits.                                          *)
(***************************************************************************)
EXTENDS Integers, Sequences, FiniteSets, TLC

----------------------------------------------------------------------------
(* Exact arithmetic on naturals of any size: little-endian digit sequences *)
(* in base Base, without leading zero digits; zero is the empty sequence.  *)

Base == 10 ^ 4

Abs(x) == IF x < 0 THEN -x ELSE x

RECURSIVE Norm(_)
Norm(a) ==
    IF a = <<>> THEN <<>>
    ELSE IF a[Len(a)] = 0 THEN Norm(SubSeq(a, 1, Len(a) - 1))
    ELSE a

RECURSIVE FromNat(_)
FromNat(n) ==
    IF n = 0 THEN <<>> ELSE <<n % Base>> \o FromNat(n \div Base)

RECURSIVE ToNat(_)
ToNat(a) ==
    IF a = <<>> THEN 0 ELSE a[1] + Base * ToNat(Tail(a))

Digit(a, i) == IF i <= Len(a) THEN a[i] ELSE 0

RECURSIVE AddFrom(_, _, _, _)
AddFrom(a, b, i, carry) ==
    IF i > Len(a) /\ i > Len(b)
    THEN IF carry = 0 THEN <<>> ELSE <<carry>>
    ELSE LET s == Digit(a, i) + Digit(b, i) + carry
         IN  <<s % Base>> \o AddFrom(a, b, i + 1, s \div Base)

NatAdd(a, b) == AddFrom(a, b, 1, 0)

\* a - b for a >= b
RECURSIVE SubFrom(_, _, _, _)
SubFrom(a, b, i, borrow) ==
    IF i > Len(a) THEN <<>>
    ELSE LET s == Digit(a, i) - Digit(b, i) - borrow
         IN  IF s < 0
             THEN <<s + Base>> \o SubFrom(a, b, i + 1, 1)
             ELSE <<s>> \o SubFrom(a, b, i + 1, 0)

NatSub(a, b) == Norm(SubFrom(a, b, 1, 0))

RECURSIVE LessFrom(_, _, _)
LessFrom(a, b, i) ==
    IF i = 0 THEN FALSE
    ELSE IF a[i] # b[i] THEN a[i] < b[i]
    ELSE LessFrom(a, b, i - 1)

NatLess(a, b) ==
    IF Len(a) # Len(b) THEN Len(a) < Len(b) ELSE LessFrom(a, b, Len(a))

\* a * d for one digit d
RECURSIVE MulDigitFrom(_, _, _, _)
MulDigitFrom(a, d, i, carry) ==
    IF i > Len(a)
    THEN IF carry = 0 THEN <<>> ELSE <<carry>>
    ELSE LET s == a[i] * d + carry
         IN  <<s % Base>> \o MulDigitFrom(a, d, i + 1, s \div Base)

RECURSIVE NatMul(_, _)
NatMul(a, b) ==
    IF a = <<>> \/ b = <<>> THEN <<>>
    ELSE NatAdd(MulDigitFrom(a, b[1], 1, 0),
                IF Len(b) = 1 THEN <<>> ELSE <<0>> \o NatMul(a, Tail(b)))

\* a divided by a small d (0 < d <= 10^5): quotient and remainder
RECURSIVE DivFrom(_, _, _, _)
DivFrom(a, d, i, rem) ==
    IF i = 0 THEN [quot |-> <<>>, rem |-> rem]
    ELSE LET cur  == rem * Base + a[i]
             rest == DivFrom(a, d, i - 1, cur % d)
         IN  [quot |-> rest.quot \o <<cur \div d>>, rem |-> rest.rem]

NatDivSmall(a, d) ==
    LET r == DivFrom(a, d, Len(a), 0)
    IN  [quot |-> Norm(r.quot), rem |-> r.rem]

\* a divided by the product of the small divisors ds: the quotient, and
\* whether the division leaves no remainder
RECURSIVE NatDivAll(_, _)
NatDivAll(a, ds) ==
    IF ds = <<>> THEN [quot |-> a, exact |-> TRUE]
    ELSE LET one == NatDivSmall(a, Head(ds))
         IN  IF one.rem = 0
             THEN NatDivAll(one.quot, Tail(ds))
             ELSE [quot |-> NatDivAll(one.quot, Tail(ds)).quot, exact |-> FALSE]

RECURSIVE NatProd(_)
NatProd(fs) ==
    IF fs = <<>> THEN <<1>> ELSE NatMul(FromNat(Head(fs)), NatProd(Tail(fs)))

----------------------------------------------------------------------------
(* Signed numbers: [neg, mag].                                             *)

Big(n) == [neg |-> n < 0, mag |-> FromNat(Abs(n))]

BigNeg(x) == [neg |-> ~x.neg /\ x.mag # <<>>, mag |-> x.mag]

BigAdd(x, y) ==
    IF x.neg = y.neg THEN [neg |-> x.neg, mag |-> NatAdd(x.mag, y.mag)]
    ELSE IF NatLess(x.mag, y.mag)
         THEN [neg |-> y.neg, mag |-> NatSub(y.mag, x.mag)]
         ELSE LET m == NatSub(x.mag, y.mag)
              IN  [neg |-> x.neg /\ m # <<>>, mag |-> m]

BigMul(x, y) ==
    LET m == NatMul(x.mag, y.mag)
    IN  [neg |-> (x.neg # y.neg) /\ m # <<>>, mag |-> m]

BigLess(x, y) ==
    IF x.neg # y.neg THEN x.neg
    ELSE IF x.neg THEN NatLess(y.mag, x.mag) ELSE NatLess(x.mag, y.mag)

----------------------------------------------------------------------------
(* Fractions: [num, den], num a signed number and den a sequence of        *)
(* positive divisors (each at most 10^5) whose product is the denominator. *)

\* n / d for integers n and 0 < d <= 10^5
Frac(n, d) == [num |-> Big(n), den |-> IF d = 1 THEN <<>> ELSE <<d>>]

FracMul(x, y) == [num |-> BigMul(x.num, y.num), den |-> x.den \o y.den]

\* x / k for an integer k with 0 < |k| <= 10^5
FracDivInt(x, k) ==
    [num |-> IF k < 0 THEN BigNeg(x.num) ELSE x.num,
     den |-> IF Abs(k) = 1 THEN x.den ELSE x.den \o <<Abs(k)>>]

\* x / (n / d) for integers n # 0, d > 0
FracDiv(x, n, d) == FracDivInt(FracMul(x, Frac(d, 1)), n)

\* The sequence ds without one occurrence of d.
RECURSIVE Remove(_, _)
Remove(ds, d) ==
    IF ds = <<>> THEN <<>>
    ELSE IF Head(ds) = d THEN Tail(ds)
    ELSE <<Head(ds)>> \o Remove(Tail(ds), d)

Occurs(ds, d) == \E i \in 1..Len(ds) : ds[i] = d

\* The divisors of ds that es does not match one for one.
RECURSIVE Unmatched(_, _)
Unmatched(ds, es) ==
    IF ds = <<>> THEN <<>>
    ELSE IF Occurs(es, Head(ds)) THEN Unmatched(Tail(ds), Remove(es, Head(ds)))
    ELSE <<Head(ds)>> \o Unmatched(Tail(ds), es)

\* x and y over the common denominator x.den \o Unmatched(y.den, x.den)
Scaled(x, y) == BigMul(x.num, [neg |-> FALSE, mag |-> NatProd(Unmatched(y.den, x.den))])

FracAdd(x, y) ==
    [num |-> BigAdd(Scaled(x, y), Scaled(y, x)),
     den |-> x.den \o Unmatched(y.den, x.den)]

FracLess(x, y) == BigLess(Scaled(x, y), Scaled(y, x))

FracMax(x, y) == IF FracLess(x, y) THEN y ELSE x

FracMin(x, y) == IF FracLess(y, x) THEN y ELSE x

\* round(x, decimals): the integer counts of 10^-decimals it can return.  With
\* X = 2|num| * 10^decimals + den, the nearest count is X div (2 * den), and x is
\* a halfway case exactly when that division leaves no remainder.
Nearest(x, decimals) ==
    NatDivAll(NatAdd(NatMul(x.num.mag, FromNat(2 * 10 ^ decimals)), NatProd(x.den)),
              <<2>> \o x.den)

Signed(neg, n) == IF neg THEN -n ELSE n

Neighbours(neg, q) ==
    IF q.exact
    THEN {Signed(neg, ToNat(q.quot)), Signed(neg, ToNat(q.quot) - 1)}
    ELSE {Signed(neg, ToNat(q.quot))}

Round(x, decimals) == Neighbours(x.num.neg, Nearest(x, decimals))

----------------------------------------------------------------------------
(* The static tables.  density in hundredths of g/cm3, price_per_kg in     *)
(* EUR/kg, the two modifiers in tenths.                                    *)

MATERIALS ==
    [PLA  |-> [name |-> "PLA (Standard)", density |-> 124, price_per_kg |-> 25,
               print_speed_modifier |-> 10, support_difficulty |-> 10],
     ABS  |-> [name |-> "ABS (High Strength)", density |-> 104, price_per_kg |-> 30,
               print_speed_modifier |-> 9, support_difficulty |-> 12],
     PETG |-> [name |-> "PETG (Chemical Resistant)", density |-> 127, price_per_kg |-> 35,
               print_speed_modifier |-> 8, support_difficulty |-> 11],
     TPU  |-> [name |-> "TPU (Flexible)", density |-> 120, price_per_kg |-> 45,
               print_speed_modifier |-> 5, support_difficulty |-> 15]]

\* base_print_time_per_cm3 in minutes, machine_cost_per_hour, post_processing_base
\* and minimum_price in EUR, support_cost_multiplier in tenths, margin in hundredths.
PRICING_CONFIG ==
    [base_print_time_per_cm3 |-> 2,
     machine_cost_per_hour   |-> 15,
     post_processing_base    |-> 5,
     support_cost_multiplier |-> 3,
     margin                  |-> 25,
     minimum_price           |-> 5]

\* Optional[bool]: None, or a boolean the caller supplied.
None == [given |-> FALSE, value |-> FALSE]

Some(b) == [given |-> TRUE, value |-> b]

OptionalBool == {None, Some(TRUE), Some(FALSE)}

----------------------------------------------------------------------------
(* analyze_3d_file_simple(file_path, file_size)                            *)

\* Variant: the volume without its floor of 1 cm3.
estimated_volume_cm3_unfloored(file_size) ==
    FracMul(Frac(file_size, 100000), Frac(10, 1))

\* max(1.0, file_size / 100000 * 10), in cm3
estimated_volume_cm3(file_size) ==
    FracMax(Frac(1, 1), FracMul(Frac(file_size, 100000), Frac(10, 1)))

\* min(1.0, file_size / 1000000)
complexity_factor(file_size) ==
    FracMin(Frac(1, 1), FracDivInt(Frac(file_size, 1000), 1000))

\* Variant: the threshold applied to the value after it is rounded.
needs_supports_rounded(file_size) ==
    \E c \in Round(complexity_factor(file_size), 3) : c > 300

\* complexity_factor > 0.3, on the value before it is rounded
needs_supports(file_size) ==
    FracLess(Frac(3, 10), complexity_factor(file_size))

\* The records a call can return.  dimensions_cm (cube roots) and
\* vertex_count, which nothing downstream reads, are left out.
analyze_3d_file_simple(file_size) ==
    { [volume_cm3        |-> v,
       surface_area_cm2  |-> a,
       face_count        |-> file_size \div 50,
       complexity_factor |-> c,
       is_watertight     |-> TRUE,
       needs_supports    |-> needs_supports(file_size),
       analysis_method   |-> "simplified_demo"] :
      v \in Round(estimated_volume_cm3(file_size), 3),
      a \in Round(FracMul(estimated_volume_cm3(file_size), Frac(6, 1)), 2),
      c \in Round(complexity_factor(file_size), 3) }

----------------------------------------------------------------------------
(* calculate_price(analysis, material, infill, layer_height,               *)
(*                 include_supports)                                       *)

\* Variant: "if not include_supports", which also replaces an explicit False.
ResolveSupports_falsy(analysis, include_supports) ==
    IF include_supports.given /\ include_supports.value
    THEN TRUE
    ELSE analysis.needs_supports

\* if include_supports is None: include_supports = analysis["needs_supports"]
ResolveSupports(analysis, include_supports) ==
    IF include_supports = None THEN analysis.needs_supports ELSE include_supports.value

\* 0.1 + (infill / 100) * 0.9
infill_multiplier(infill) ==
    FracAdd(Frac(1, 10), FracMul(Frac(infill, 100), Frac(9, 10)))

\* volume_cm3 * infill_multiplier, and volume_cm3 * 0.15 more with supports
effective_volume(volume_cm3, infill, supports) ==
    IF supports
    THEN FracAdd(FracMul(volume_cm3, infill_multiplier(infill)),
                 FracMul(volume_cm3, Frac(15, 100)))
    ELSE FracMul(volume_cm3, infill_multiplier(infill))

\* effective_volume * mat_props["density"], in grams
weight_g(analysis, material, infill, supports) ==
    FracMul(effective_volume(Frac(analysis.volume_cm3, 1000), infill, supports),
            Frac(MATERIALS[material].density, 100))

\* weight_kg * mat_props["price_per_kg"], with weight_kg = weight_g / 1000
material_cost(analysis, material, infill, supports) ==
    FracMul(FracDivInt(weight_g(analysis, material, infill, supports), 1000),
            Frac(MATERIALS[material].price_per_kg, 1))

\* volume_cm3 * PRICING_CONFIG["base_print_time_per_cm3"]
base_time_minutes(analysis) ==
    FracMul(Frac(analysis.volume_cm3, 1000),
            Frac(PRICING_CONFIG.base_print_time_per_cm3, 1))

\* Variant: a print time that does not depend on the layer height.
layer_modifier_fixed(layer_height) == Frac(1, 1)

\* 0.2 / layer_height, for layer_height # 0 in micrometres
layer_modifier(layer_height) == FracDivInt(Frac(200, 1), layer_height)

\* 1 + (analysis["complexity_factor"] * 0.5)
complexity_modifier(analysis) ==
    FracAdd(Frac(1, 1), FracMul(Frac(analysis.complexity_factor, 1000), Frac(5, 10)))

\* 1 + (0.3 if include_supports else 0)
support_modifier(supports) ==
    IF supports THEN FracAdd(Frac(1, 1), Frac(3, 10)) ELSE Frac(1, 1)

\* base_time_minutes * layer_modifier * complexity_modifier * support_modifier
\*   / speed_modifier
total_time_minutes(analysis, material, layer_height, supports) ==
    FracDiv(FracMul(FracMul(FracMul(base_time_minutes(analysis),
                                    layer_modifier(layer_height)),
                            complexity_modifier(analysis)),
                    support_modifier(supports)),
            MATERIALS[material].print_speed_modifier, 10)

\* total_time_hours = total_time_minutes / 60
total_time_hours(minutes) == FracDivInt(minutes, 60)

\* total_time_hours * PRICING_CONFIG["machine_cost_per_hour"]
machine_cost(minutes) ==
    FracMul(total_time_hours(minutes), Frac(PRICING_CONFIG.machine_cost_per_hour, 1))

\* Variant: post-processing that ignores supports.
post_processing_flat(mat_cost, supports) == Frac(PRICING_CONFIG.post_processing_base, 1)

\* post_processing_base, plus material_cost * support_cost_multiplier with
\* supports
post_processing(mat_cost, supports) ==
    IF supports
    THEN FracAdd(Frac(PRICING_CONFIG.post_processing_base, 1),
                 FracMul(mat_cost, Frac(PRICING_CONFIG.support_cost_multiplier, 10)))
    ELSE Frac(PRICING_CONFIG.post_processing_base, 1)

\* material_cost + machine_cost + post_processing
subtotal(mat_cost, minutes, supports) ==
    FracAdd(FracAdd(mat_cost, machine_cost(minutes)),
            post_processing(mat_cost, supports))

\* subtotal * PRICING_CONFIG["margin"]
margin_amount(sub) == FracMul(sub, Frac(PRICING_CONFIG.margin, 100))

\* Variant: the total without the minimum price.
total_price_unfloored(sub) == FracAdd(sub, margin_amount(sub))

\* max(subtotal + margin_amount, PRICING_CONFIG["minimum_price"])
total_price(sub) ==
    FracMax(FracAdd(sub, margin_amount(sub)), Frac(PRICING_CONFIG.minimum_price, 1))

\* The quantities that follow from the subtotal.
Totals(supports, weight, mat_cost, minutes, sub) ==
    [include_supports   |-> supports,
     weight_g           |-> weight,
     material_cost      |-> mat_cost,
     total_time_hours   |-> total_time_hours(minutes),
     total_time_minutes |-> minutes,
     machine_cost       |-> machine_cost(minutes),
     post_processing    |-> post_processing(mat_cost, supports),
     subtotal           |-> sub,
     margin_amount      |-> margin_amount(sub),
     total_price        |-> total_price(sub)]

\* From the machine time on: what calculate_price derives from the material
\* cost and the print time.
Breakdown(supports, weight, mat_cost, minutes) ==
    Totals(supports, weight, mat_cost, minutes, subtotal(mat_cost, minutes, supports))

\* The quantities calculate_price computes before it rounds them, for a
\* material of the catalog and a layer height other than zero.
PriceTerms(analysis, material, infill, layer_height, include_supports) ==
    Breakdown(ResolveSupports(analysis, include_supports),
              weight_g(analysis, material, infill,
                       ResolveSupports(analysis, include_supports)),
              material_cost(analysis, material, infill,
                            ResolveSupports(analysis, include_supports)),
              total_time_minutes(analysis, material, layer_height,
                                 ResolveSupports(analysis, include_supports)))

\* The records calculate_price can return for the quantities t.
Quote(t, material, infill, layer_height) ==
    { [material   |-> [type     |-> material,
                       name     |-> MATERIALS[material].name,
                       weight_g |-> w,
                       cost     |-> c],
       print_time |-> [hours   |-> h,
                       minutes |-> m],
       costs      |-> [material        |-> c,
                       machine_time    |-> mt,
                       post_processing |-> pp,
                       subtotal        |-> st,
                       margin          |-> mg,
                       total           |-> tt],
       parameters |-> [infill_percent    |-> infill,
                       layer_height_mm   |-> layer_height,
                       includes_supports |-> t.include_supports]] :
      w  \in Round(t.weight_g, 2),
      c  \in Round(t.material_cost, 2),
      h  \in Round(t.total_time_hours, 2),
      m  \in Round(t.total_time_minutes, 0),
      mt \in Round(t.machine_cost, 2),
      pp \in Round(t.post_processing, 2),
      st \in Round(t.subtotal, 2),
      mg \in Round(t.margin_amount, 2),
      tt \in Round(t.total_price, 2) }

Raised(exception, detail) == [raised |-> exception, detail |-> detail, quote |-> <<>>]

Returned(quote) == [raised |-> "none", detail |-> <<>>, quote |-> <<quote>>]

\* Variant: the layer height is looked at before the material.
calculate_price_layer_first(analysis, material, infill, layer_height, include_supports) ==
    IF layer_height = 0
    THEN {Raised("ZeroDivisionError", <<"float division by zero">>)}
    ELSE IF material \notin DOMAIN MATERIALS
    THEN {Raised("ValueError", <<"Unknown material", material>>)}
    ELSE {Returned(q) : q \in Quote(PriceTerms(analysis, material, infill,
                                               layer_height, include_supports),
                                    material, infill, layer_height)}

\* Variant: every layer height that is not positive raises.
calculate_price_positive_only(analysis, material, infill, layer_height, include_supports) ==
    IF material \notin DOMAIN MATERIALS
    THEN {Raised("ValueError", <<"Unknown material", material>>)}
    ELSE IF layer_height <= 0
    THEN {Raised("ZeroDivisionError", <<"float division by zero">>)}
    ELSE {Returned(q) : q \in Quote(PriceTerms(analysis, material, infill,
                                               layer_height, include_supports),
                                    material, infill, layer_height)}

\* The outcomes a call can have: a quote returned, or an exception raised.
calculate_price(analysis, material, infill, layer_height, include_supports) ==
    IF material \notin DOMAIN MATERIALS
    THEN {Raised("ValueError", <<"Unknown material", material>>)}
    ELSE IF layer_height = 0
    THEN {Raised("ZeroDivisionError", <<"float division by zero">>)}
    ELSE {Returned(q) : q \in Quote(PriceTerms(analysis, material, infill,
                                               layer_height, include_supports),
                                    material, infill, layer_height)}

----------------------------------------------------------------------------
(* File names: sequences of characters.                                    *)

UpperCase == <<"A", "B", "C", "D", "E", "F", "G", "H", "I", "J", "K", "L", "M",
               "N", "O", "P", "Q", "R", "S", "T", "U", "V", "W", "X", "Y", "Z">>

LowerCase == <<"a", "b", "c", "d", "e", "f", "g", "h", "i", "j", "k", "l", "m",
               "n", "o", "p", "q", "r", "s", "t", "u", "v", "w", "x", "y", "z">>

LowerChar(c) ==
    IF \E i \in 1..Len(UpperCase) : UpperCase[i] = c
    THEN LowerCase[CHOOSE i \in 1..Len(UpperCase) : UpperCase[i] = c]
    ELSE c

\* str.lower()
Lower(p) == [i \in 1..Len(p) |-> LowerChar(p[i])]

\* str.rfind(c), counting from 1; 0 when c does not occur
RFind(p, c) ==
    IF \E i \in 1..Len(p) : p[i] = c
    THEN CHOOSE i \in 1..Len(p) : p[i] = c /\ \A j \in (i + 1)..Len(p) : p[j] # c
    ELSE 0

\* os.path.splitext(p)[1]: from the last dot of the last path component on,
\* unless that component has nothing but dots before it
SplitExt(p) ==
    LET sepIndex == RFind(p, "/")
        dotIndex == RFind(p, ".")
    IN  IF dotIndex > sepIndex
           /\ \E k \in (sepIndex + 1)..(dotIndex - 1) : p[k] # "."
        THEN SubSeq(p, dotIndex, Len(p))
        ELSE <<>>

allowed_extensions ==
    { <<".", "s", "t", "l">>, <<".", "o", "b", "j">>, <<".", "p", "l", "y">>,
      <<".", "s", "t", "e", "p">>, <<".", "s", "t", "p">> }

----------------------------------------------------------------------------
(* The requests the model sends.                                           *)

\* Uploads are named a.stl, B.STP, a.txt and .stl
FileNames ==
    { <<"a", ".", "s", "t", "l">>, <<"B", ".", "S", "T", "P">>,
      <<"a", ".", "t", "x", "t">>, <<".", "s", "t", "l">> }

\* Upload sizes in bytes: multiples of SizeStep, and the sizes on both sides
\* of the supports threshold, and one whose volume is a halfway case.
SizeStep == 75 * 10 ^ 4

MaxSizeSteps == 2

FileSizes == {k * SizeStep : k \in 0..MaxSizeSteps} \cup {10005, 300000, 300001}

MaterialKeys == {"PLA", "ABS", "PETG", "TPU", "NYLON"}

\* Infill percents: multiples of InfillStep, and one far below zero.
InfillStep == 10 ^ 2

MaxInfillSteps == 1

Infills == {k * InfillStep : k \in 0..MaxInfillSteps} \cup {-5000}

\* Layer heights in micrometres: 0.2 mm and its multiples by 16, zero, and
\* one below zero.
MaxLayerSteps == 1

LayerHeights == {200 * 16 ^ k : k \in 0..MaxLayerSteps} \cup {0, -200}

----------------------------------------------------------------------------
(* analyze_file: one request through the handler.                          *)

VARIABLES
    pc,             \* where the handler stands
    request,        \* the upload and the form fields
    tmp_files,      \* the files in the temporary directory
    tmp_file_path,  \* <<>>, or <<the temporary file of this request>>
    content,        \* <<>>, or <<the number of bytes read from the upload>>
    analysis,       \* <<>>, or <<the record analyze_3d_file_simple returned>>
    pricing,        \* <<>>, or <<the quote calculate_price returned>>
    response,       \* <<>>, or <<the response of the handler>>
    calls           \* what the handler has done so far, in order

vars == <<pc, request, tmp_files, tmp_file_path, content, analysis, pricing,
          response, calls>>

NoRequest ==
    [filename |-> <<>>, size |-> 0, material |-> "PLA", infill |-> 20,
     layer_height |-> 200, include_supports |-> None]

Init ==
    /\ pc = "idle"
    /\ request = NoRequest
    /\ tmp_files = {}
    /\ tmp_file_path = <<>>
    /\ content = <<>>
    /\ analysis = <<>>
    /\ pricing = <<>>
    /\ response = <<>>
    /\ calls = <<>>

file_extension == SplitExt(Lower(request.filename))

HTTPException(status_code, detail) ==
    [status_code |-> status_code, detail |-> detail, body |-> <<>>]

\* POST /api/analyze arrives.
Receive ==
    /\ pc = "idle"
    /\ \E f \in FileNames, n \in FileSizes, m \in MaterialKeys, i \in Infills,
          h \in LayerHeights, s \in OptionalBool :
          request' = [filename |-> f, size |-> n, material |-> m, infill |-> i,
                      layer_height |-> h, include_supports |-> s]
    /\ pc' = "validate"
    /\ UNCHANGED <<tmp_files, tmp_file_path, content, analysis, pricing,
                   response, calls>>

\* if file_extension not in allowed_extensions: raise HTTPException(400, ...)
Reject ==
    /\ pc = "validate"
    /\ file_extension \notin allowed_extensions
    /\ response' = <<HTTPException(400, <<"Unsupported file type">>)>>
    /\ pc' = "done"
    /\ UNCHANGED <<request, tmp_files, tmp_file_path, content, analysis,
                   pricing, calls>>

\* Variant: the temporary file is created whatever the extension is.
CreateTempUnchecked ==
    /\ pc = "validate"
    /\ tmp_files' = tmp_files \cup {[suffix |-> file_extension]}
    /\ calls' = Append(calls, "NamedTemporaryFile")
    /\ pc' = "read"
    /\ UNCHANGED <<request, tmp_file_path, content, analysis, pricing, response>>

\* with tempfile.NamedTemporaryFile(delete=False, suffix=file_extension)
CreateTemp ==
    /\ pc = "validate"
    /\ file_extension \in allowed_extensions
    /\ tmp_files' = tmp_files \cup {[suffix |-> file_extension]}
    /\ calls' = Append(calls, "NamedTemporaryFile")
    /\ pc' = "read"
    /\ UNCHANGED <<request, tmp_file_path, content, analysis, pricing, response>>

\* content = await file.read()
ReadUpload ==
    /\ pc = "read"
    /\ content' = <<request.size>>
    /\ calls' = Append(calls, "read")
    /\ pc' = "write"
    /\ UNCHANGED <<request, tmp_files, tmp_file_path, analysis, pricing, response>>

\* file.read() raises: the with block closes the file, which was created with
\* delete=False, and the exception leaves the handler before its try block.
ReadFails ==
    /\ pc = "read"
    /\ calls' = Append(calls, "read")
    /\ response' = <<HTTPException(500, <<"Internal Server Error">>)>>
    /\ pc' = "done"
    /\ UNCHANGED <<request, tmp_files, tmp_file_path, content, analysis, pricing>>

\* tmp_file.write(content); tmp_file_path = tmp_file.name
WriteTemp ==
    /\ pc = "write"
    /\ tmp_file_path' = <<[suffix |-> file_extension]>>
    /\ calls' = Append(calls, "write")
    /\ pc' = "analyze"
    /\ UNCHANGED <<request, tmp_files, content, analysis, pricing, response>>

\* tmp_file.write(content) raises (the disk is full): as for ReadFails
WriteFails ==
    /\ pc = "write"
    /\ calls' = Append(calls, "write")
    /\ response' = <<HTTPException(500, <<"Internal Server Error">>)>>
    /\ pc' = "done"
    /\ UNCHANGED <<request, tmp_files, tmp_file_path, content, analysis, pricing>>

\* analysis = analyze_3d_file_simple(tmp_file_path, len(content))
Analyze ==
    /\ pc = "analyze"
    /\ \E a \in analyze_3d_file_simple(content[1]) : analysis' = <<a>>
    /\ calls' = Append(calls, "analyze_3d_file_simple")
    /\ pc' = "price"
    /\ UNCHANGED <<request, tmp_files, tmp_file_path, content, pricing, response>>

\* The response to the outcome of calculate_price: the success record, 400 for
\* a ValueError, 500 for any other exception.
Respond(outcome) ==
    IF outcome.raised = "none"
    THEN [status_code |-> 200, detail |-> <<>>,
          body |-> <<[filename |-> request.filename,
                      file_size_bytes |-> content[1],
                      analysis |-> analysis[1],
                      pricing |-> outcome.quote[1],
                      status |-> "success"]>>]
    ELSE IF outcome.raised = "ValueError"
    THEN HTTPException(400, outcome.detail)
    ELSE HTTPException(500, <<"Internal error">> \o outcome.detail)

\* pricing = calculate_price(analysis, material, infill, layer_height,
\*                           include_supports), and the return or the except
\* clause that follows it
Price ==
    /\ pc = "price"
    /\ \E outcome \in calculate_price(analysis[1], request.material,
                                      request.infill, request.layer_height,
                                      request.include_supports) :
          /\ pricing' = outcome.quote
          /\ response' = <<Respond(outcome)>>
    /\ calls' = Append(calls, "calculate_price")
    /\ pc' = "finally"
    /\ UNCHANGED <<request, tmp_files, tmp_file_path, content, analysis>>

\* finally: os.unlink(tmp_file_path)
Cleanup ==
    /\ pc = "finally"
    /\ tmp_files' = tmp_files \ {tmp_file_path[1]}
    /\ calls' = Append(calls, "unlink")
    /\ pc' = "done"
    /\ UNCHANGED <<request, tmp_file_path, content, analysis, pricing, response>>

Next ==
    \/ Receive
    \/ Reject
    \/ CreateTemp
    \/ ReadUpload
    \/ ReadFails
    \/ WriteTemp
    \/ WriteFails
    \/ Analyze
    \/ Price
    \/ Cleanup

Spec == Init /\ [][Next]_vars

----------------------------------------------------------------------------
(* Properties.                                                             *)

Called(name) == \E i \in 1..Len(calls) : calls[i] = name

Catalog == DOMAIN MATERIALS

\* What the pricer computes before rounding, for the request with the supports
\* argument s and the layer height h.
Terms(s, h) ==
    PriceTerms(analysis[1], request.material, request.infill, h, s)

\* The quotes the pricer can return for the request with the supports
\* argument s and the layer height h.
Quotes(s, h) ==
    {o.quote[1] : o \in calculate_price(analysis[1], request.material,
                                        request.infill, h, s)}

\* C1: for every analysis record, catalog material, infill, layer height > 0
\* and supports argument, costs.total of the returned quote is at least the
\* minimum price.
C1_TotalAtLeastMinimum ==
    (pricing # <<>> /\ request.layer_height > 0)
        => pricing[1].costs.total >= PRICING_CONFIG.minimum_price * 100

\* A quote whose total is the minimum price because the subtotal plus margin
\* lies below it.
C1_Witness ==
    /\ pricing # <<>>
    /\ request.layer_height > 0
    /\ pricing[1].costs.subtotal + pricing[1].costs.margin
          < PRICING_CONFIG.minimum_price * 100
    /\ pricing[1].costs.total = PRICING_CONFIG.minimum_price * 100

\* C2 as stated: the returned complexity_factor is in [0, 1] and needs_supports
\* is true exactly when the returned complexity_factor is > 0.3.
C2_SupportsIffReturnedFactor ==
    analysis # <<>>
        => /\ analysis[1].complexity_factor \in 0..1000
           /\ analysis[1].needs_supports <=> (analysis[1].complexity_factor > 300)

\* C2: the returned complexity_factor is in [0, 1]; needs_supports is true
\* exactly when the upload has more than 300000 bytes, that is when the factor
\* before rounding is > 0.3; a returned factor > 0.3 implies needs_supports.
C2_SupportsIffUnroundedFactor ==
    analysis # <<>>
        => /\ analysis[1].complexity_factor \in 0..1000
           /\ analysis[1].needs_supports <=> (content[1] > 300000)
           /\ (analysis[1].complexity_factor > 300) => analysis[1].needs_supports

\* An analysis that needs supports although its returned factor is 0.3.
C2_Witness ==
    /\ analysis # <<>>
    /\ analysis[1].needs_supports
    /\ analysis[1].complexity_factor = 300

\* C3 as stated: with infill in [0, 100] and layer height > 0, a quote with
\* supports has strictly greater costs.material, costs.post_processing and
\* costs.total than every quote for the same arguments without supports.
C3_SupportsStrictlyDearer ==
    (/\ pricing # <<>>
     /\ request.infill \in 0..100
     /\ request.layer_height > 0
     /\ pricing[1].parameters.includes_supports)
        => \A q \in Quotes(Some(FALSE), request.layer_height) :
              /\ pricing[1].costs.material > q.costs.material
              /\ pricing[1].costs.post_processing > q.costs.post_processing
              /\ pricing[1].costs.total > q.costs.total

\* C3: with infill in [0, 100] and layer height > 0, the material cost, the
\* post-processing cost and the total price before rounding are strictly
\* greater with supports than without, and the returned costs.material,
\* costs.post_processing and costs.total are greater or equal.
C3_SupportsDearer ==
    (/\ pricing # <<>>
     /\ request.infill \in 0..100
     /\ request.layer_height > 0
     /\ pricing[1].parameters.includes_supports)
        => /\ FracLess(Terms(Some(FALSE), request.layer_height).material_cost,
                       Terms(Some(TRUE), request.layer_height).material_cost)
           /\ FracLess(Terms(Some(FALSE), request.layer_height).post_processing,
                       Terms(Some(TRUE), request.layer_height).post_processing)
           /\ FracLess(Terms(Some(FALSE), request.layer_height).total_price,
                       Terms(Some(TRUE), request.layer_height).total_price)
           /\ \A q \in Quotes(Some(FALSE), request.layer_height) :
                 /\ pricing[1].costs.material >= q.costs.material
                 /\ pricing[1].costs.post_processing >= q.costs.post_processing
                 /\ pricing[1].costs.total >= q.costs.total

\* A quote with supports whose returned post-processing cost is the one
\* returned without supports.
C3_Witness ==
    /\ pricing # <<>>
    /\ request.infill \in 0..100
    /\ request.layer_height > 0
    /\ pricing[1].parameters.includes_supports
    /\ \E q \in Quotes(Some(FALSE), request.layer_height) :
          pricing[1].costs.post_processing = q.costs.post_processing

\* C4 as stated: for any layer height h > 0, the minutes reported for h/2 are
\* strictly greater than the minutes reported for h, all else equal.
C4_HalvingStrictlyLonger ==
    (/\ pricing # <<>>
     /\ request.layer_height > 0
     /\ request.layer_height % 2 = 0)
        => \A q \in Quotes(request.include_supports, request.layer_height \div 2) :
              q.print_time.minutes > pricing[1].print_time.minutes

\* C4: for any layer height h > 0, the print time in minutes before rounding
\* is strictly greater for h/2 than for h, and the minutes reported for h/2
\* are greater than or equal to the minutes reported for h.
C4_HalvingLonger ==
    (/\ pricing # <<>>
     /\ request.layer_height > 0
     /\ request.layer_height % 2 = 0)
        => /\ FracLess(Terms(request.include_supports,
                             request.layer_height).total_time_minutes,
                       Terms(request.include_supports,
                             request.layer_height \div 2).total_time_minutes)
           /\ \A q \in Quotes(request.include_supports, request.layer_height \div 2) :
                 q.print_time.minutes >= pricing[1].print_time.minutes

\* A quote whose reported minutes are the ones reported for half its layer
\* height.
C4_Witness ==
    /\ pricing # <<>>
    /\ request.layer_height > 0
    /\ request.layer_height % 2 = 0
    /\ \E q \in Quotes(request.include_supports, request.layer_height \div 2) :
          q.print_time.minutes = pricing[1].print_time.minutes

C6_UnknownMaterialIs400 ==
    (Called("calculate_price") /\ request.material \notin Catalog)
        => /\ calculate_price(analysis[1], request.material, request.infill,
                              request.layer_height, request.include_supports)
                 = {Raised("ValueError", <<"Unknown material", request.material>>)}
           /\ pricing = <<>>
           /\ response = <<HTTPException(400, <<"Unknown material", request.material>>)>>

\* A request with an unknown material and a layer height of zero, answered 400.
C6_Witness ==
    /\ pc = "done"
    /\ Called("calculate_price")
    /\ request.material = "NYLON"
    /\ request.layer_height = 0
    /\ response[1].status_code = 400
    /\ response[1].detail = <<"Unknown material", "NYLON">>

\* C7: the includes_supports of the quote is the caller's include_supports
\* when that is true or false, and analysis.needs_supports when it is unset.
C7_TriStateSupports ==
    pricing # <<>>
        => pricing[1].parameters.includes_supports
              = IF request.include_supports = None
                THEN analysis[1].needs_supports
                ELSE request.include_supports.value

\* A quote without supports for an analysis that needs them, the caller having
\* passed false.
C7_Witness ==
    /\ pricing # <<>>
    /\ request.include_supports = Some(FALSE)
    /\ analysis[1].needs_supports
    /\ ~pricing[1].parameters.includes_supports

\* C8: the returned volume_cm3 is at least 1.0 for every size, 0 included.
C8_VolumeAtLeastOne ==
    analysis # <<>> => analysis[1].volume_cm3 >= 1000

\* The analysis of an empty upload, whose volume is the floor.
C8_Witness ==
    /\ analysis # <<>>
    /\ content[1] = 0
    /\ analysis[1].volume_cm3 = 1000

\* C9: an upload whose extension is not allowed is answered 400 without the
\* upload being read, a temporary file being created or the estimator or the
\* pricer being called, even when the material is unknown too.
C9_BadExtensionRejectedFirst ==
    (pc # "idle" /\ file_extension \notin allowed_extensions)
        => /\ pc \in {"validate", "done"}
           /\ calls = <<>>
           /\ tmp_files = {}
           /\ content = <<>>
           /\ analysis = <<>>
           /\ pricing = <<>>
           /\ pc = "done" => response = <<HTTPException(400, <<"Unsupported file type">>)>>

\* A rejected upload with a bad extension and an unknown material.
C9_Witness ==
    /\ pc = "done"
    /\ file_extension \notin allowed_extensions
    /\ request.material \notin Catalog
    /\ response[1].status_code = 400
    /\ calls = <<>>

\* C10 as stated: when the handler has finished, on every way it can finish,
\* the temporary file it created has been removed.
C10_TempFileRemoved ==
    pc = "done" => tmp_files = {}

====
